---- MODULE Spec2Model ----
(***************************************************************************)
(* Model of src/app.py: the Employee class and the Staff class (the        *)
(* hierarchy builder, its string rendering and its salary total).          *)
(*                                                                         *)
(* An Employee object is identified by its position in the list handed to  *)
(* the Staff constructor (`input`); every list of Employee references the  *)
(* program holds (Staff.employees, Staff.hierarchy, Employee.employees,    *)
(* the hierarchyLevel of a running call) is a sequence of such positions,   *)
(* so that two lists alias the same objects exactly as in the program.     *)
(* A str is the sequence of its code points: Python compares, sorts and    *)
(* concatenates strings code point by code point.                          *)
(***************************************************************************)
EXTENDS Integers, Sequences, FiniteSets

VARIABLES
    input,      \* the list given to Staff(...), in the caller's order
    pc,         \* "new": before Staff.__init__; "generate": inside
                \* __generateHierarchy; "built": the constructor has returned
    employees,  \* Staff.employees
    hierarchy,  \* Staff.hierarchy
    reports,    \* reports[e]: Employee.employees of the object e
    stack,      \* the running calls of __generateHierarchy, innermost last
    visits,     \* visits[e]: how often e was the loop's current employee
    steps,      \* loop iterations and returns of __generateHierarchy so far
    repr,       \* the outcome of the last str(staff)
    emitted,    \* the lines the last str(staff) emitted, with their parameters
    total       \* the outcome of the last staff.totalSalary()

vars == <<input, pc, employees, hierarchy, reports, stack, visits, steps,
          repr, emitted, total>>

----------------------------------------------------------------------------
(* Bounds of the model and the sets the inputs are drawn from.             *)

MaxEmp == 3

Space == 32

Newline == 10

DefaultDepth == 0

DefaultTabWidth == 2

\* "b" and "ab": the shorter name sorts last, the names share no prefix
Names == { <<98>>, <<97, 98>> }

Salaries == {1, 2}

\* Ids are unique across the roster and the program only ever compares them
\* for equality (reportsToId), so one numbering per roster stands for all of
\* them: the i-th record of the input carries the id 100 + i.
IdOf(i) == 100 + i

\* An employee's manager field: None is the empty set, the id k is {k}.
\* IdOf(MaxEmp + 1) is the id of no employee (a dangling reference).
None == {}

Managers == {None} \cup { {IdOf(k)} : k \in 1..(MaxEmp + 1) }

EmployeeData(i, f) ==
    [id |-> IdOf(i), first_name |-> f[1], salary |-> f[2], manager |-> f[3]]

\* the roster of n employees whose i-th record has the fields f[i]
Roster(n, f) == [i \in 1..n |-> EmployeeData(i, f[i])]

----------------------------------------------------------------------------
(* str: comparison and concatenation.                                      *)

RECURSIVE StrLess(_, _)
StrLess(a, b) ==
    IF a = <<>> THEN b # <<>>
    ELSE IF b = <<>> THEN FALSE
    ELSE IF a[1] # b[1] THEN a[1] < b[1]
    ELSE StrLess(Tail(a), Tail(b))

RECURSIVE Spaces(_)
Spaces(n) == IF n <= 0 THEN <<>> ELSE <<Space>> \o Spaces(n - 1)

----------------------------------------------------------------------------
(* Employee                                                                *)

FirstName(e) == input[e].first_name

IsOwner(e) == input[e].manager = None

\* the comparison off by one: an employee with a single report is no manager
IsManager_MoreThanOne(e) == Len(reports[e]) > 1

IsManager(e) == Len(reports[e]) > 0

\* the id is not looked at: whoever has a manager reports to everybody
ReportsToId_AnyManager(e, id) == input[e].manager # None

ReportsToId(e, id) == input[e].manager = {id}

\* an unstable sort: x goes in front of the elements with its own key
RECURSIVE InsertByFirstName_BeforeEqual(_, _)
InsertByFirstName_BeforeEqual(sorted, x) ==
    IF sorted = <<>> THEN <<x>>
    ELSE IF ~StrLess(FirstName(Head(sorted)), FirstName(x))
         THEN <<x>> \o sorted
         ELSE <<Head(sorted)>> \o InsertByFirstName_BeforeEqual(Tail(sorted), x)

\* list.sort(key = lambda x: x.first_name): ascending and stable. x goes
\* behind every element whose key is not greater than its own.
RECURSIVE InsertByFirstName(_, _)
InsertByFirstName(sorted, x) ==
    IF sorted = <<>> THEN <<x>>
    ELSE IF StrLess(FirstName(x), FirstName(Head(sorted)))
         THEN <<x>> \o sorted
         ELSE <<Head(sorted)>> \o InsertByFirstName(Tail(sorted), x)

RECURSIVE SortFrom(_, _)
SortFrom(sorted, rest) ==
    IF rest = <<>> THEN sorted
    ELSE SortFrom(InsertByFirstName(sorted, Head(rest)), Tail(rest))

\* sort(reverse = True): descending by first name
SortByFirstName_Descending(s) ==
    LET up == SortFrom(<<>>, s) IN [k \in DOMAIN up |-> up[Len(up) + 1 - k]]

SortByFirstName(s) == SortFrom(<<>>, s)

SetEmployees(e, found) == [reports EXCEPT ![e] = SortByFirstName(found)]

----------------------------------------------------------------------------
(* Staff                                                                   *)

\* the filter forgotten: every employee starts a tree
Owners_All(emps) == emps

\* the employees without a manager in the roster, not those without a manager
Owners_Unmanaged(emps) ==
    SelectSeq(emps, LAMBDA x : ~\E y \in DOMAIN input : ReportsToId(x, input[y].id))

Owners(emps) == SelectSeq(emps, IsOwner)

ManagedBy(employee) ==
    SelectSeq(employees, LAMBDA x : ReportsToId(x, input[employee].id))

Frame(level) == [level |-> level, pos |-> 0]

Top == stack[Len(stack)]

Advance(frame) == [frame EXCEPT !.pos = frame.pos + 1]

Init ==
    /\ \E n \in 0..MaxEmp : \E f \in [1..n -> Names \X Salaries \X Managers] :
          input = Roster(n, f)
    /\ pc = "new"
    /\ employees = <<>>
    /\ hierarchy = <<>>
    /\ reports = [e \in DOMAIN input |-> <<>>]
    /\ stack = <<>>
    /\ visits = [e \in DOMAIN input |-> 0]
    /\ steps = 0
    /\ repr = [status |-> "none"]
    /\ emitted = <<>>
    /\ total = [status |-> "none"]

\* Staff.__init__ up to the call of __generateHierarchy(self.hierarchy)
StaffInit ==
    /\ pc = "new"
    /\ employees' = SortByFirstName([i \in DOMAIN input |-> i])
    /\ hierarchy' = Owners(employees')
    /\ stack' = <<Frame(hierarchy')>>
    /\ pc' = "generate"
    /\ UNCHANGED <<input, reports, visits, steps, repr, emitted, total>>

\* one iteration of the loop of the innermost __generateHierarchy call
GenerateVisit ==
    /\ pc = "generate"
    /\ Top.pos < Len(Top.level)
    /\ LET employee == Top.level[Top.pos + 1]
           found == ManagedBy(employee)
           below == SubSeq(stack, 1, Len(stack) - 1) \o <<Advance(Top)>>
       IN /\ IF Len(found) > 0
             THEN /\ reports' = SetEmployees(employee, found)
                  /\ stack' = Append(below, Frame(reports'[employee]))
             ELSE /\ reports' = reports
                  /\ stack' = below
          /\ visits' = [visits EXCEPT ![employee] = @ + 1]
    /\ steps' = steps + 1
    /\ UNCHANGED <<input, pc, employees, hierarchy, repr, emitted, total>>

\* the loop of the innermost call is exhausted: the call returns
GenerateReturn ==
    /\ pc = "generate"
    /\ Top.pos = Len(Top.level)
    /\ stack' = SubSeq(stack, 1, Len(stack) - 1)
    /\ pc' = IF Len(stack) = 1 THEN "built" ELSE "generate"
    /\ steps' = steps + 1
    /\ UNCHANGED <<input, employees, hierarchy, reports, visits, repr, emitted, total>>

\* depth taken for a level count: depth * tabWidth spaces
Prefix_TimesTabWidth(depth) == Spaces(depth * DefaultTabWidth)

Prefix(depth) == Spaces(depth)

\* __generateHierarchyString, as the sequence of the lines it appends to
\* hierarchyString, each with the parameters of the call that appended it
RECURSIVE GenerateHierarchyLines(_, _, _)
GenerateHierarchyLines(hierarchyLevel, depth, tabWidth) ==
    IF hierarchyLevel = <<>> THEN <<>>
    ELSE LET employee == Head(hierarchyLevel)
             line == [employee |-> employee, depth |-> depth, tabWidth |-> tabWidth,
                      text |-> Prefix(depth) \o FirstName(employee) \o <<Newline>>]
         IN <<line>>
            \o (IF IsManager(employee)
                THEN GenerateHierarchyLines(reports[employee], depth + tabWidth, tabWidth)
                ELSE <<>>)
            \o GenerateHierarchyLines(Tail(hierarchyLevel), depth, tabWidth)

RECURSIVE Concat(_)
Concat(lines) == IF lines = <<>> THEN <<>> ELSE Head(lines).text \o Concat(Tail(lines))

GenerateHierarchyString(hierarchyLevel, depth, tabWidth) ==
    Concat(GenerateHierarchyLines(hierarchyLevel, depth, tabWidth))

\* Staff.__repr__
Repr ==
    /\ pc = "built"
    /\ repr' = [status |-> "ok",
                value |-> GenerateHierarchyString(hierarchy, DefaultDepth, DefaultTabWidth)]
    /\ emitted' = GenerateHierarchyLines(hierarchy, DefaultDepth, DefaultTabWidth)
    /\ UNCHANGED <<input, pc, employees, hierarchy, reports, stack, visits, steps, total>>

\* functools.reduce(lambda a, b: a + b, salaries) with no initial value
RECURSIVE Fold(_, _)
Fold(acc, s) == IF s = <<>> THEN acc ELSE Fold(acc + Head(s), Tail(s))

Reduce(s) ==
    IF s = <<>> THEN [status |-> "raised", error |-> "TypeError"]
    ELSE [status |-> "ok", value |-> Fold(Head(s), Tail(s))]

\* the salaries of the roots instead of those of the whole roster
SalariesOf_Hierarchy(emps) == [k \in DOMAIN hierarchy |-> input[hierarchy[k]].salary]

SalariesOf(emps) == [k \in DOMAIN emps |-> input[emps[k]].salary]

\* Staff.totalSalary
TotalSalary ==
    /\ pc = "built"
    /\ total' = Reduce(SalariesOf(employees))
    /\ UNCHANGED <<input, pc, employees, hierarchy, reports, stack, visits, steps,
                   repr, emitted>>

Next == StaffInit \/ GenerateVisit \/ GenerateReturn \/ Repr \/ TotalSalary

Spec == Init /\ [][Next]_vars

----------------------------------------------------------------------------
(* What the properties below speak about, read off the input alone.        *)

Emps == DOMAIN input

Occurs(s, x) == Cardinality({ k \in DOMAIN s : s[k] = x })

HasValidManager(i) == \E j \in Emps : input[i].manager = {input[j].id}

Dangling(i) == input[i].manager # None /\ ~HasValidManager(i)

ManagerOf(i) == CHOOSE j \in Emps : input[i].manager = {input[j].id}

RECURSIVE ChainEnds(_, _)
ChainEnds(i, fuel) ==
    \/ input[i].manager = None
    \/ fuel > 0 /\ HasValidManager(i) /\ ChainEnds(ManagerOf(i), fuel - 1)

\* every manager id is absent or names an employee, and no chain of managers
\* comes back to itself
ValidForest == \A i \in Emps : ChainEnds(i, Len(input))

\* i comes before j when sorting by name, ties kept in input order
Before(i, j) ==
    \/ StrLess(FirstName(i), FirstName(j))
    \/ FirstName(i) = FirstName(j) /\ i < j

First(S) == CHOOSE m \in S : \A x \in S \ {m} : Before(m, x)

ChildrenOf(i) == { j \in Emps : input[j].manager = {input[i].id} }

RECURSIVE SumSalaries(_)
SumSalaries(S) ==
    IF S = {} THEN 0
    ELSE LET x == CHOOSE y \in S : TRUE IN input[x].salary + SumSalaries(S \ {x})

\* the pre-order listing of the trees rooted in S, level k indented by 2k spaces
RECURSIVE Listing(_, _)
Listing(S, k) ==
    IF S = {} THEN <<>>
    ELSE LET m == First(S)
         IN Spaces(2 * k) \o FirstName(m) \o <<Newline>>
            \o Listing(ChildrenOf(m), k + 1)
            \o Listing(S \ {m}, k)

RECURSIVE LeadingSpaces(_)
LeadingSpaces(text) ==
    IF text # <<>> /\ Head(text) = Space THEN 1 + LeadingSpaces(Tail(text)) ELSE 0

GenerateStep == GenerateVisit \/ GenerateReturn

----------------------------------------------------------------------------
(* C1: once the Staff is built, every employee whose manager id is the id  *)
(* of some employee of the roster is in exactly one employees list, the    *)
(* one of the employee with that id (also when that manager is an orphan   *)
(* or lies on a cycle of managers).                                        *)
C1_EveryManagedEmployeeIsListed ==
    pc = "built" =>
        \A i \in Emps : HasValidManager(i) =>
            \A m \in Emps :
                Occurs(reports[m], i) =
                    (IF input[i].manager = {input[m].id} THEN 1 ELSE 0)

(* C2: a Staff built from zero employees has an empty hierarchy, renders   *)
(* as the empty string, and its totalSalary() returns 0 without raising.   *)
C2_EmptyInputDoesNotFail ==
    (input = <<>> /\ pc = "built") =>
        /\ hierarchy = <<>>
        /\ repr.status # "none" => repr = [status |-> "ok", value |-> <<>>]
        /\ total.status # "none" => total = [status |-> "ok", value |-> 0]

(* C3: str(staff) is the pre-order listing of the employees reachable from *)
(* the owners, owners and siblings in name order, one name per line, each  *)
(* line ended by one newline and indented by two spaces per tree level;    *)
(* employees reachable from no owner have no line.                         *)
C3_RenderingIsPreorderListing ==
    repr.status # "none" =>
        repr = [status |-> "ok",
                value |-> Listing({ i \in Emps : input[i].manager = None }, 0)]

C3_Witness ==
    /\ repr.status = "ok"
    /\ \E k \in DOMAIN emitted : emitted[k].depth = 2 * DefaultTabWidth
    /\ Len(emitted) = Len(input)

(* C4: for a non-empty roster totalSalary() is the sum of the salary of    *)
(* every employee of the input, each counted once, whatever its place in   *)
(* the hierarchy and whatever the order of the input.                      *)
C4_TotalSalaryIsSum ==
    (input # <<>> /\ total.status # "none") =>
        total = [status |-> "ok", value |-> SumSalaries(Emps)]

C4_Witness ==
    /\ total.status = "ok"
    /\ \E i, j, k \in Emps :
          /\ input[i].manager = None
          /\ input[j].manager = {input[i].id}
          /\ Dangling(k)
          /\ input[i].salary # input[j].salary

(* C5: every employees list is sorted ascending by first name, and two of  *)
(* its members with the same first name are in the order in which they     *)
(* stood in the list given to the Staff constructor.                       *)
C5_ReportsSortedAndStable ==
    \A m \in Emps : \A p, q \in DOMAIN reports[m] :
        p < q =>
            LET a == reports[m][p]
                b == reports[m][q]
            IN /\ ~StrLess(FirstName(b), FirstName(a))
               /\ FirstName(a) = FirstName(b) => a < b

C5_Witness ==
    /\ pc = "built"
    /\ \E m \in Emps :
          /\ Len(reports[m]) = 2
          /\ FirstName(reports[m][1]) = FirstName(reports[m][2])

(* C6: the hierarchy (the roots) holds exactly the employees whose manager *)
(* is None, each once, in the order they have in the name-sorted roster;   *)
(* with several such employees all are roots, with none it is empty.       *)
C6_RootsAreTheOwners ==
    pc # "new" =>
        /\ { hierarchy[k] : k \in DOMAIN hierarchy }
              = { i \in Emps : input[i].manager = None }
        /\ \A i \in Emps : Occurs(hierarchy, i) <= 1
        /\ \A i \in Emps : Occurs(employees, i) = 1
        /\ \A p, q \in DOMAIN hierarchy :
              p < q => Before(hierarchy[p], hierarchy[q])
        /\ \A p, q \in DOMAIN employees :
              p < q => Before(employees[p], employees[q])

C6_Witness ==
    /\ pc = "built"
    /\ Len(hierarchy) = 2
    /\ Len(input) = 3
    /\ FirstName(hierarchy[1]) = FirstName(hierarchy[2])

(* C7: an employee whose manager id is the id of no employee does not make *)
(* construction fail: construction runs on to completion, the employee is  *)
(* in the roster and counted by totalSalary(), and it is neither a root    *)
(* nor in any employees list.                                              *)
C7_DanglingManagerIsSilentOrphan ==
    \A i \in Emps : Dangling(i) =>
        /\ pc = "generate" => ENABLED GenerateStep
        /\ pc # "new" => Occurs(employees, i) = 1 /\ Occurs(hierarchy, i) = 0
        /\ \A m \in Emps : Occurs(reports[m], i) = 0
        /\ total.status # "none" =>
              /\ total.status = "ok"
              /\ total.value = SumSalaries(Emps \ {i}) + input[i].salary

C7_Witness ==
    /\ pc = "built"
    /\ total.status = "ok"
    /\ \E i, m \in Emps : Dangling(i) /\ IsManager(m)

(* C8: construction terminates whatever the manager references are: the    *)
(* loop iterations and returns of __generateHierarchy number at most       *)
(* 2n + 1 for a roster of n employees, and until the constructor has       *)
(* returned one more of them can always be taken.                          *)
C8_ConstructionTerminates ==
    /\ steps <= 2 * Len(input) + 1
    /\ Len(stack) <= Len(input) + 1
    /\ pc = "generate" => ENABLED GenerateStep

C8_Witness ==
    /\ pc = "built"
    /\ \E m \in Emps : IsManager(m)
    /\ \E i \in Emps : input[i].manager = {input[i].id}

(* C9: when the manager graph is a valid forest, every employee is the     *)
(* current employee of the loop of __generateHierarchy exactly once over   *)
(* all levels and recursive calls together.                                *)
C9_EveryEmployeeVisitedOnce ==
    ValidForest =>
        /\ \A i \in Emps : visits[i] <= 1
        /\ pc = "built" => \A i \in Emps : visits[i] = 1

C9_Witness ==
    /\ pc = "built"
    /\ ValidForest
    /\ \E i, j, k \in Emps :
          /\ input[i].manager = None
          /\ input[j].manager = {input[i].id}
          /\ input[k].manager = {input[j].id}

(* C10 as stated: a line emitted by a call with depth parameter d and tab  *)
(* width w is indented by d * w spaces.                                    *)
C10_IndentIsDepthTimesTabWidth ==
    \A k \in DOMAIN emitted :
        LeadingSpaces(emitted[k].text) = emitted[k].depth * emitted[k].tabWidth

(* C10 as amended: a line emitted by a call with depth parameter d is      *)
(* indented by exactly d spaces; the roots are rendered with d = 0 and     *)
(* w = 2, and the employees list of an employee with d + w and w.          *)
C10_IndentIsDepth ==
    \A k \in DOMAIN emitted :
        LET line == emitted[k]
        IN /\ LeadingSpaces(line.text) = line.depth
           /\ line.tabWidth = DefaultTabWidth
           /\ Occurs(hierarchy, line.employee) = 1 => line.depth = DefaultDepth
           /\ \A j \in DOMAIN emitted :
                 Occurs(reports[emitted[j].employee], line.employee) = 1
                     => line.depth = emitted[j].depth + emitted[j].tabWidth

C10_Witness ==
    /\ repr.status = "ok"
    /\ \E k \in DOMAIN emitted : emitted[k].depth = DefaultTabWidth

====
